---- MODULE Spec2Model ----
(***************************************************************************)
(* Home-Streak: households, users and habits persisted in one JSON         *)
(* document (data.json).  The model has five parts:                        *)
(*   - the calendar (datetime.now, strftime, weekday),                     *)
(*   - the persisted document and the DataManager / Leaderboard / CLI      *)
(*     operations that load, change and overwrite it,                      *)
(*   - one in-memory User object driven by Habit.complete and              *)
(*     User.track_completion,                                              *)
(*   - the in-memory Leaderboard instance, the Household object and the    *)
(*     Habit constructor,                                                  *)
(*   - two processes that run complete_habit concurrently, load_data and   *)
(*     save_data being separate steps.                                     *)
(* Python dicts whose iteration order is observable (households, the       *)
(* leaderboard rankings) are sequences of <<key, value>> pairs in          *)
(* insertion order; the other dicts are functions.                         *)
(***************************************************************************)
EXTENDS Integers, Sequences, FiniteSets, TLC

VARIABLES
    file,   \* the persisted document, data.json
    today,  \* datetime.now(), as a day number counted from Monday 2024-12-23
    user,   \* one in-memory User object
    args,   \* history: the (periodicity, points) pairs track_completion was called with
    done,   \* history: <<operation, user, habit, day>> of every successful completion or claim
    call,   \* history: the last operation, its arguments and what it returned
    leaderboard, \* the in-memory Leaderboard instance: its past_rankings list
    calls,  \* history: how many Leaderboard operations have run
    members, \* one in-memory Household object: its members, <<username, points>> each
    procs   \* the concurrent processes: each one's position, arguments and loaded copy

vars == <<file, today, user, args, done, call, leaderboard, calls, members, procs>>

----------------------------------------------------------------------------
(* Bounds of the model. *)

\* last day of the clock in the DataManager specification
MaxDay == 7
\* last day of the clock in the Habit.complete specification
MaxHabitDay == 14
\* longest completion history in the track_completion specification
MaxLen == 7
\* complete_habit / claim_bonus_habit are not called once a user holds this many points
MaxPoints == 4
\* number of Leaderboard.update / reset_monthly calls in the Leaderboard specification
MaxCalls == 3
\* number of reset_habits / reset_monthly_scores calls in the reset specification
MaxResets == 1
\* largest stored streak in the bonus-points specification
MaxStreak == 14
\* longest habit name passed to the Habit constructor, in characters
MaxNameLen == 3
\* add_points is not called beyond this many points of a household member
MaxMemberPoints == 3

----------------------------------------------------------------------------
(* The calendar.  Day 0 is Monday 2024-12-23; day 9 is 2025-01-01. *)

\* first day of the DataManager specification's clock: Sunday 2024-12-29
StartDay == 6
\* first day of the Habit.complete specification's clock: Monday 2024-12-30
HabitStartDay == 7
\* day number of 2025-01-01
NewYear == 9

\* date.weekday(): Monday is 0
weekday(d) == d % 7

YearOf(d) == IF d < NewYear THEN 2024 ELSE 2025

\* zero-based day of the year (2024 is a leap year: 2024-12-23 is day 358)
YDay0(d) == IF d < NewYear THEN 357 + d ELSE d - NewYear

\* strftime("%Y-%m-%d"), as <<year, month, day>>; the model's days lie in
\* December 2024 and January 2025
strftime_Ymd(d) == IF d < NewYear THEN <<2024, 12, 23 + d>> ELSE <<2025, 1, d - NewYear + 1>>

\* comparison of two "%Y-%m-%d" strings: zero-padded fields compare as numbers,
\* field by field
DateGeq(a, b) ==
    \/ a[1] > b[1]
    \/ a[1] = b[1] /\ a[2] > b[2]
    \/ a[1] = b[1] /\ a[2] = b[2] /\ a[3] >= b[3]

\* strftime("%W-%Y"): week of the year with Monday as the first day of the week,
\* days before the year's first Monday are week 0
strftime_WY(d) == <<(YDay0(d) + 7 - weekday(d)) \div 7, YearOf(d)>>

\* strftime('%m-%Y') as <<month, year>>
strftime_mY(d) == IF d < NewYear THEN <<12, 2024>> ELSE <<1, 2025>>

----------------------------------------------------------------------------
(* Python dicts that keep insertion order: sequences of <<key, value>>. *)

DictKeys(d) == {d[i][1] : i \in 1..Len(d)}

DictHas(d, k) == \E i \in 1..Len(d) : d[i][1] = k

DictGet(d, k) == d[CHOOSE i \in 1..Len(d) : d[i][1] = k][2]

\* d[k] = v: an existing key keeps its position, a new key goes last
DictSet(d, k, v) ==
    IF DictHas(d, k)
    THEN [i \in 1..Len(d) |-> IF d[i][1] = k THEN <<k, v>> ELSE d[i]]
    ELSE Append(d, <<k, v>>)

\* function update that also adds the key (a dict modelled as a function)
FnSet(f, k, v) == [x \in DOMAIN f \cup {k} |-> IF x = k THEN v ELSE f[x]]

\* one step of a sort that puts an item ahead of the items it ties with
InsertDesc_AheadOfTies(s, x) ==
    LET n == Cardinality({i \in 1..Len(s) : s[i][2] > x[2]})
    IN  SubSeq(s, 1, n) \o <<x>> \o SubSeq(s, n + 1, Len(s))

\* insert item x into the descending sequence s behind every item whose
\* points are >= x's: one step of a stable sort
InsertDesc(s, x) ==
    LET n == Cardinality({i \in 1..Len(s) : s[i][2] >= x[2]})
    IN  SubSeq(s, 1, n) \o <<x>> \o SubSeq(s, n + 1, Len(s))

RECURSIVE SortedDesc(_)
\* sorted(items, key=lambda item: item[1], reverse=True): stable, descending
SortedDesc(s) ==
    IF s = <<>> THEN <<>>
    ELSE InsertDesc(SortedDesc(SubSeq(s, 1, Len(s) - 1)), s[Len(s)])

----------------------------------------------------------------------------
(* The persisted document. *)

\* the empty skeleton DataManager.load_data creates
EmptyDocument ==
    [ households       |-> <<>>,
      habits           |-> <<>>,
      bonus_habits     |-> <<>>,
      leaderboard      |-> [rankings |-> <<>>, past_rankings |-> <<>>],
      streaks          |-> <<>>,
      completed_habits |-> <<>> ]

\* a save that merges: a user whose streaks the caller's document does not
\* hold keeps the streaks stored in the file
save_data_Merge(old, data) ==
    [data EXCEPT !.streaks =
        [u \in DOMAIN old.streaks \cup DOMAIN data.streaks |->
            IF u \in DOMAIN old.streaks /\ (u \notin DOMAIN data.streaks \/ data.streaks[u] = <<>>)
            THEN old.streaks[u] ELSE data.streaks[u]]]

\* data_store.save_data: the whole file is overwritten by the caller's document
save_data(old, data) == data

\* Habit.to_dict (created_at, a timestamp no operation reads, is left out)
Habit_to_dict(habit) ==
    [ name |-> habit.name, periodicity |-> habit.periodicity,
      points |-> habit.points, is_bonus |-> habit.is_bonus ]

\* next((h for h in habits if h["name"] == name), None); NoHabit stands for None
NoHabit == [name |-> "", periodicity |-> "", points |-> 0, is_bonus |-> FALSE]

\* a lookup without the name filter: the first habit of the list, if any
FindHabit_Any(habits, name) ==
    IF habits # <<>> THEN habits[1] ELSE NoHabit

FindHabit(habits, name) ==
    IF \E i \in 1..Len(habits) : habits[i].name = name
    THEN habits[CHOOSE i \in 1..Len(habits) :
                    /\ habits[i].name = name
                    /\ \A j \in 1..(i - 1) : habits[j].name # name]
    ELSE NoHabit

\* username in details["members"]
IsMember(details, username) == \E j \in 1..Len(details.members) : details.members[j] = username

\* the loop "for household, details in data["households"].items(): if username
\* in details["members"]": the first household listing the user, "" for None
FindHousehold(data, username) ==
    LET hs == data.households
    IN  IF \E i \in 1..Len(hs) : IsMember(hs[i][2], username)
        THEN hs[CHOOSE i \in 1..Len(hs) :
                    /\ IsMember(hs[i][2], username)
                    /\ \A j \in 1..(i - 1) : ~IsMember(hs[j][2], username)][1]
        ELSE ""

\* data["households"][h]["points"][u]
PointsOf(data, h, u) == DictGet(data.households, h).points[u]

----------------------------------------------------------------------------
(* Leaderboard. *)

\* Leaderboard(): the instance keeps the past_rankings list it loaded
Leaderboard_init(f) == [past_rankings |-> f.leaderboard.past_rankings]

\* User(username, household, points=...): the fields Leaderboard.update reads
User_init(username, household, points) ==
    [username |-> username, household |-> household, points |-> points]

\* Leaderboard.update: load the file, upsert rankings[household][username],
\* re-sort that household's ranking, save the file
Leaderboard_update(f, u) ==
    LET r0     == f.leaderboard.rankings
        r1     == IF DictHas(r0, u.household) THEN r0 ELSE Append(r0, <<u.household, <<>>>>)
        ranks  == DictSet(DictGet(r1, u.household), u.username, u.points)
        data   == [f EXCEPT !.leaderboard.rankings = DictSet(r1, u.household, SortedDesc(ranks))]
    IN  save_data(f, data)

\* Leaderboard.get_sorted_rankings: {} for a household without ranked entries
get_sorted_rankings(f, household_name) ==
    IF DictHas(f.leaderboard.rankings, household_name)
    THEN SortedDesc(DictGet(f.leaderboard.rankings, household_name))
    ELSE <<>>

RECURSIVE CurrentRankings_All(_)
\* a snapshot that also keeps the households whose ranking is empty
CurrentRankings_All(rankings) ==
    IF rankings = <<>> THEN <<>>
    ELSE <<<<Head(rankings)[1], SortedDesc(Head(rankings)[2])>>>> \o CurrentRankings_All(Tail(rankings))

RECURSIVE CurrentRankings(_)
\* reset_monthly, first loop: the households with a non-empty ranking, each
\* ranking sorted by points descending, in the order of the rankings dict
CurrentRankings(rankings) ==
    IF rankings = <<>> THEN <<>>
    ELSE LET h    == Head(rankings)
             rest == CurrentRankings(Tail(rankings))
         IN  IF h[2] # <<>> THEN <<<<h[1], SortedDesc(h[2])>>>> \o rest ELSE rest

RECURSIVE AllEntries(_)
\* the (username, points) items in the order the nested loops visit them
AllEntries(current_rankings) ==
    IF current_rankings = <<>> THEN <<>>
    ELSE Head(current_rankings)[2] \o AllEntries(Tail(current_rankings))

RECURSIVE TopLoop(_, _, _, _)
\* reset_monthly, second loop: "if points > top_points" from entry i on
TopLoop(entries, i, top_user, top_points) ==
    IF i > Len(entries) THEN [top_user |-> top_user, points |-> top_points]
    ELSE IF entries[i][2] > top_points
         THEN TopLoop(entries, i + 1, entries[i][1], entries[i][2])
         ELSE TopLoop(entries, i + 1, top_user, top_points)

\* top_user, top_points = None, 0 and the loop over every household
TopPerformer(current_rankings) == TopLoop(AllEntries(current_rankings), 1, "None", 0)

\* the assignment that follows the archive step of reset_monthly, as the
\* specification describes it: rankings are only cleared after an archive
ClearRankings_KeepWhenEmpty(rankings) ==
    IF CurrentRankings(rankings) = <<>> THEN rankings ELSE <<>>

\* reset_monthly: data["leaderboard"]["rankings"] = {}
ClearRankings(rankings) == <<>>

\* Leaderboard.reset_monthly on the instance lb: archive the non-empty
\* rankings with the top performer, clear the rankings, save the file
Leaderboard_reset_monthly(f, lb, now) ==
    LET current_rankings == CurrentRankings(f.leaderboard.rankings)
        top              == TopPerformer(current_rankings)
        ranking_entry    == [month    |-> strftime_mY(now),
                             rankings |-> current_rankings,
                             top_user |-> top.top_user,
                             points   |-> top.points]
        past             == IF current_rankings # <<>>
                            THEN Append(f.leaderboard.past_rankings, ranking_entry)
                            ELSE f.leaderboard.past_rankings
        data             == [f EXCEPT !.leaderboard =
                                [rankings      |-> ClearRankings(f.leaderboard.rankings),
                                 past_rankings |-> past]]
    IN  [file        |-> save_data(f, data),
         leaderboard |-> IF current_rankings # <<>>
                         THEN [lb EXCEPT !.past_rankings = Append(@, ranking_entry)]
                         ELSE lb]

\* Leaderboard.get_top_performers: the instance's records with a "top_user" key
Leaderboard_get_top_performers(lb) ==
    SelectSeq(lb.past_rankings, LAMBDA ranking : "top_user" \in DOMAIN ranking)

\* Leaderboard.get_past_rankings: the instance's records with a "rankings" key
Leaderboard_get_past_rankings(lb) ==
    SelectSeq(lb.past_rankings, LAMBDA ranking : "rankings" \in DOMAIN ranking)

----------------------------------------------------------------------------
(* DataManager: each operation maps the file to [ret, file]; ret is the     *)
(* value returned ("None" for a plain return, "ValueError" for a raise).    *)

DM_create_household(f, household_name) ==
    IF DictHas(f.households, household_name)
    THEN [ret |-> "None", file |-> f]
    ELSE LET d1 == [f EXCEPT !.households =
                        Append(@, <<household_name, [members |-> <<>>, points |-> <<>>]>>)]
             d2 == [d1 EXCEPT !.leaderboard.rankings = DictSet(@, household_name, <<>>)]
         IN  [ret |-> "None", file |-> save_data(f, d2)]

DM_save_user(f, u) ==
    IF ~DictHas(f.households, u.household)
    THEN [ret |-> "ValueError", file |-> f]
    ELSE LET hh == DictGet(f.households, u.household)
         IN  IF IsMember(hh, u.username)
             THEN [ret |-> "None", file |-> f]
             ELSE LET hh2 == [members |-> Append(hh.members, u.username),
                              points  |-> FnSet(hh.points, u.username, u.points)]
                      d1  == [f EXCEPT !.households = DictSet(@, u.household, hh2)]
                      d2  == [d1 EXCEPT !.streaks = FnSet(@, u.username, <<>>)]
                  IN  [ret |-> "None", file |-> save_data(f, d2)]

\* a duplicate test over both lists at once: a name taken in either
\* category blocks the save
DM_save_habit_AnyList(f, habit) ==
    IF \E i \in 1..Len(f.habits \o f.bonus_habits) : (f.habits \o f.bonus_habits)[i].name = habit.name
    THEN [ret |-> "None", file |-> f]
    ELSE IF habit.is_bonus
    THEN [ret |-> "None",
          file |-> save_data(f, [f EXCEPT !.bonus_habits = Append(@, Habit_to_dict(habit))])]
    ELSE [ret |-> "None",
          file |-> save_data(f, [f EXCEPT !.habits = Append(@, Habit_to_dict(habit))])]

DM_save_habit(f, habit) ==
    IF habit.is_bonus
    THEN IF \E i \in 1..Len(f.bonus_habits) : f.bonus_habits[i].name = habit.name
         THEN [ret |-> "None", file |-> f]
         ELSE [ret |-> "None",
               file |-> save_data(f, [f EXCEPT !.bonus_habits = Append(@, Habit_to_dict(habit))])]
    ELSE IF \E i \in 1..Len(f.habits) : f.habits[i].name = habit.name
         THEN [ret |-> "None", file |-> f]
         ELSE [ret |-> "None",
               file |-> save_data(f, [f EXCEPT !.habits = Append(@, Habit_to_dict(habit))])]

DM_save_bonus_habit(f, habit) ==
    IF \E i \in 1..Len(f.bonus_habits) : f.bonus_habits[i].name = habit.name
    THEN [ret |-> "None", file |-> f]
    ELSE [ret |-> "None",
          file |-> save_data(f, [f EXCEPT !.bonus_habits =
                                    Append(@, Habit_to_dict([habit EXCEPT !.is_bonus = TRUE]))])]

\* DataManager.update_leaderboard
DM_update_leaderboard(f, u) == Leaderboard_update(f, u)

\* mutant of CompleteStreakAndPoints: the points are credited to every member
CompleteStreakAndPoints_AllMembers(data, hh, username, habit) ==
    LET s0 == IF username \in DOMAIN data.streaks THEN data.streaks[username] ELSE <<>>
        s1 == IF habit.name \in DOMAIN s0 THEN s0 ELSE FnSet(s0, habit.name, 0)
        s2 == [s1 EXCEPT ![habit.name] = @ + 1]
        h0 == DictGet(data.households, hh)
        h1 == [h0 EXCEPT !.points = [v \in DOMAIN @ |-> @[v] + habit.points]]
    IN  [data EXCEPT !.streaks = FnSet(@, username, s2),
                     !.households = DictSet(@, hh, h1)]

\* lines 140-148: the streak counter and the household points of the local copy
CompleteStreakAndPoints(data, hh, username, habit) ==
    LET s0 == IF username \in DOMAIN data.streaks THEN data.streaks[username] ELSE <<>>
        s1 == IF habit.name \in DOMAIN s0 THEN s0 ELSE FnSet(s0, habit.name, 0)
        s2 == [s1 EXCEPT ![habit.name] = @ + 1]
        h0 == DictGet(data.households, hh)
        h1 == [h0 EXCEPT !.points[username] = @ + habit.points]
    IN  [data EXCEPT !.streaks = FnSet(@, username, s2),
                     !.households = DictSet(@, hh, h1)]

\* lines 150-154 and 196-199: completed_habits[today][habit_name] = username
RecordCompletion(data, now, habit_name, username) ==
    LET key == strftime_Ymd(now)
        c0  == IF key \in DOMAIN data.completed_habits THEN data.completed_habits[key] ELSE <<>>
    IN  [data EXCEPT !.completed_habits = FnSet(@, key, FnSet(c0, habit_name, username))]

DM_complete_habit(f, username, habit_name, now) ==
    LET data  == f
        habit == FindHabit(data.habits, habit_name)
        hh    == FindHousehold(data, username)
    IN  IF habit = NoHabit THEN [ret |-> "False", file |-> f]
        ELSE IF hh = "" THEN [ret |-> "False", file |-> f]
        ELSE LET d1 == CompleteStreakAndPoints(data, hh, username, habit)
                 d2 == RecordCompletion(d1, now, habit_name, username)
                 \* line 158: the leaderboard loads, changes and saves the file itself
                 f1 == DM_update_leaderboard(f, User_init(username, hh, PointsOf(d2, hh, username)))
                 \* line 160: the local copy, loaded before that, overwrites the file
                 f2 == save_data(f1, d2)
             IN  [ret |-> "True", file |-> f2]

\* lines 184-193: the bonus habit was already claimed by this user in the period
ClaimedThisPeriod(data, username, habit, now) ==
    LET period_start == strftime_Ymd(now - (IF habit.periodicity = "weekly" THEN weekday(now) ELSE 0))
    IN  \E date \in DOMAIN data.completed_habits :
            /\ DateGeq(date, period_start)
            /\ habit.name \in DOMAIN data.completed_habits[date]
            /\ data.completed_habits[date][habit.name] = username

DM_claim_bonus_habit(f, username, habit_name, now) ==
    LET data  == f
        habit == FindHabit(data.bonus_habits, habit_name)
        hh    == FindHousehold(data, username)
    IN  IF habit = NoHabit THEN [ret |-> "False", file |-> f]
        ELSE IF hh = "" THEN [ret |-> "False", file |-> f]
        ELSE IF ClaimedThisPeriod(data, username, habit, now) THEN [ret |-> "False", file |-> f]
        ELSE LET d1 == RecordCompletion(data, now, habit_name, username)
                 h0 == DictGet(d1.households, hh)
                 d2 == [d1 EXCEPT !.households =
                            DictSet(@, hh, [h0 EXCEPT !.points[username] = @ + habit.points])]
                 f1 == DM_update_leaderboard(f, User_init(username, hh, PointsOf(d2, hh, username)))
                 f2 == save_data(f1, d2)
             IN  [ret |-> "True", file |-> f2]

\* cli.add_user: DataManager.save_user, then leaderboard.update(user) with 0 points
CLI_add_user(f, username, household_name) ==
    IF ~DictHas(f.households, household_name)
    THEN [ret |-> "ValueError", file |-> f]
    ELSE LET u  == User_init(username, household_name, 0)
             f1 == DM_save_user(f, u).file
         IN  [ret |-> "None", file |-> Leaderboard_update(f1, u)]

\* DataManager.get_habit: the regular habits first, then the bonus habits;
\* NoHabit stands for None
DM_get_habit(f, habit_name) ==
    LET habit == FindHabit(f.habits, habit_name)
    IN  IF habit # NoHabit THEN habit ELSE FindHabit(f.bonus_habits, habit_name)

\* reset_habits, lines 249-257: some date on or after the start of the
\* period records the habit with this username
CompletedInPeriod(data, username, habit, now) ==
    LET days_to_subtract == IF habit.periodicity = "weekly" THEN weekday(now) ELSE 0
        period_start     == strftime_Ymd(now - days_to_subtract)
    IN  \E date \in DOMAIN data.completed_habits :
            /\ DateGeq(date, period_start)
            /\ habit.name \in DOMAIN data.completed_habits[date]
            /\ data.completed_habits[date][habit.name] = username

\* reset_habits, one (username, habit_name) pair: the streak it is left with
ResetStreak(data, username, habit_name, now) ==
    LET habit == DM_get_habit(data, habit_name)
    IN  IF habit = NoHabit THEN data.streaks[username][habit_name]
        ELSE IF CompletedInPeriod(data, username, habit, now)
             THEN data.streaks[username][habit_name]
             ELSE 0

\* DataManager.reset_habits: every stored streak is kept or set to 0
DM_reset_habits(f, now) ==
    LET data == f
        d1   == [data EXCEPT !.streaks =
                    [username \in DOMAIN data.streaks |->
                        [habit_name \in DOMAIN data.streaks[username] |->
                            ResetStreak(data, username, habit_name, now)]]]
    IN  [ret |-> "None", file |-> save_data(f, d1)]

\* a reset that forgets one member: the first member of a household keeps its points
ZeroPoints_ButFirst(details) ==
    [details EXCEPT !.points = [username \in DOMAIN details.points |->
        IF details.members # <<>> /\ username = details.members[1]
        THEN details.points[username] ELSE 0]]

\* reset_monthly_scores, inner loop: household["points"][username] = 0
ZeroPoints(details) ==
    [details EXCEPT !.points = [username \in DOMAIN details.points |-> 0]]

\* DataManager.reset_monthly_scores
DM_reset_monthly_scores(f) ==
    LET data == f
        d1   == [data EXCEPT !.households =
                    [i \in 1..Len(data.households) |->
                        <<data.households[i][1], ZeroPoints(data.households[i][2])>>]]
    IN  [ret |-> "None", file |-> save_data(f, d1)]

\* DataManager.clear_data: the skeleton is saved, then leaderboard.reset_state()
\* is called; Leaderboard has no such method, and only IOError is caught
DM_clear_data(f) ==
    [ret |-> "AttributeError", file |-> save_data(f, EmptyDocument)]

\* cli complete_habit: DataManager.complete_habit, then the message echoed
CLI_complete_habit(f, username, habit_name, now) ==
    LET r == DM_complete_habit(f, username, habit_name, now)
    IN  IF r.ret = "True"
        THEN IF FindHabit(r.file.bonus_habits, habit_name) # NoHabit
             THEN [ret |-> "Bonus Habit claimed", file |-> r.file]
             ELSE [ret |-> "Habit completed", file |-> r.file]
        ELSE [ret |-> "Habit not found", file |-> r.file]

\* cli reset_monthly_scores: leaderboard.reset_monthly(), then
\* DataManager.reset_monthly_scores()
CLI_reset_monthly_scores(f, lb, now) ==
    LET r == Leaderboard_reset_monthly(f, lb, now)
    IN  [ret         |-> "Monthly scores reset. Leaderboard archived.",
         file        |-> DM_reset_monthly_scores(r.file).file,
         leaderboard |-> r.leaderboard]

\* the lines view_top_performers echoes for the entries of a list
TopPerformerLines(entries) ==
    [i \in 1..Len(entries) |->
        [month |-> entries[i].month, top_user |-> entries[i].top_user, points |-> entries[i].points]]

\* cli view_top_performers, line 152: data["leaderboard"]["top_performers"],
\* the empty list when the document's leaderboard has no such key
ViewedPerformers(lb) ==
    IF "top_performers" \in DOMAIN lb THEN lb.top_performers ELSE <<>>

\* cli view_top_performers: the message echoed and the lines under it
CLI_view_top_performers(f) ==
    LET top_performers == ViewedPerformers(f.leaderboard)
    IN  IF top_performers = <<>>
        THEN [message |-> "No top performers recorded yet.", lines |-> <<>>]
        ELSE [message |-> "Top Performers by Month:", lines |-> TopPerformerLines(top_performers)]

----------------------------------------------------------------------------
(* The in-memory User object and Habit.complete.  A user is the record      *)
(* [points, habits_completed, streaks, bonus_claimed]; completion dates are *)
(* day numbers (datetime.date values, subtracted to a number of days).      *)

\* mutant of User_has_completed_today: the first recorded date is read
User_has_completed_today_First(u, habit_name, now) ==
    /\ habit_name \in DOMAIN u.habits_completed
    /\ u.habits_completed[habit_name][1] = now

\* User.has_completed_today: the LAST recorded date of the habit is today
User_has_completed_today(u, habit_name, now) ==
    /\ habit_name \in DOMAIN u.habits_completed
    /\ u.habits_completed[habit_name][Len(u.habits_completed[habit_name])] = now

\* mutant of OnPeriod: a weekly gap of up to 7 days counts
OnPeriodWithin(periodicity, delta) ==
    \/ periodicity = "daily" /\ delta = 1
    \/ periodicity = "weekly" /\ delta <= 7

\* the test of line 73 on the gap between two successive completions
OnPeriod(periodicity, delta) ==
    \/ periodicity = "daily" /\ delta = 1
    \/ periodicity = "weekly" /\ delta = 7

RECURSIVE StreakLoop(_, _, _, _)
\* the loop of lines 70-76, from index i on, with the running streak
StreakLoop(completions, periodicity, i, streak) ==
    IF i > Len(completions) THEN streak
    ELSE StreakLoop(completions, periodicity, i + 1,
                    IF OnPeriod(periodicity, completions[i] - completions[i - 1])
                    THEN streak + 1 ELSE 1)

\* mutant of User_update_streak: the streak bonus is not added
User_update_streak_NoBonus(u, habit_name, periodicity) ==
    LET completions == u.habits_completed[habit_name]
    IN  [u EXCEPT !.streaks = FnSet(@, habit_name,
                                    IF Len(completions) < 2 THEN 1
                                    ELSE StreakLoop(completions, periodicity, 2, 1))]

\* User.update_streak
User_update_streak(u, habit_name, periodicity) ==
    LET completions == u.habits_completed[habit_name]
    IN  IF Len(completions) < 2
        THEN [u EXCEPT !.streaks = FnSet(@, habit_name, 1)]
        ELSE LET streak == StreakLoop(completions, periodicity, 2, 1)
             IN  [u EXCEPT !.streaks = FnSet(@, habit_name, streak),
                           !.points  = IF streak % 7 = 0 THEN @ + 5 ELSE @]

\* User.track_completion; points is <<>> for None and <<p>> for a value p
User_track_completion(u, habit_name, date, periodicity, points) ==
    LET u0 == IF habit_name \in DOMAIN u.habits_completed THEN u
              ELSE [u EXCEPT !.habits_completed = FnSet(@, habit_name, <<>>),
                             !.streaks = FnSet(@, habit_name, 0)]
        u1 == [u0 EXCEPT !.habits_completed[habit_name] = Append(@, date)]
        u2 == User_update_streak(u1, habit_name, periodicity)
    IN  IF points # <<>> THEN [u2 EXCEPT !.points = @ + points[1]] ELSE u2

\* Habit.calculate_points
Habit_calculate_points(habit, u) ==
    LET streak == IF habit.name \in DOMAIN u.streaks THEN u.streaks[habit.name] ELSE 0
    IN  habit.points + (IF streak % 7 = 0 THEN 5 ELSE 0)

\* Habit.complete: [ret, user], ret the kind of message returned
Habit_complete(habit, u, now) ==
    LET current_week == strftime_WY(now)
    IN  IF User_has_completed_today(u, habit.name, now)
        THEN [ret |-> "already been completed today", user |-> u]
        ELSE IF /\ habit.is_bonus
                /\ habit.name \in DOMAIN u.bonus_claimed
                /\ u.bonus_claimed[habit.name] = current_week
        THEN [ret |-> "already been claimed this week", user |-> u]
        ELSE LET u1 == IF habit.is_bonus
                       THEN [u EXCEPT !.bonus_claimed = FnSet(@, habit.name, current_week)]
                       ELSE u
                 u2 == User_track_completion(u1, habit.name, now, habit.periodicity, <<>>)
                 points_earned == Habit_calculate_points(habit, u2)
             IN  [ret |-> "Good job", user |-> [u2 EXCEPT !.points = @ + points_earned]]

----------------------------------------------------------------------------
(* User.from_dict.  A value read from JSON carries the type isinstance      *)
(* sees: [type, value], with type "absent" for a key the dict lacks.  A      *)
(* date string "YYYY-MM-DD" is written <<year, month, day>>.                *)

PyVal(type, value) == [type |-> type, value |-> value]

\* data.get(key, default)
DictGetDefault(v, default) == IF v.type = "absent" THEN default ELSE v

\* datetime.strptime(date, "%Y-%m-%d").date(), as a day number
strptime_Ymd(s) == IF s[1] = 2024 THEN s[3] - 23 ELSE NewYear + s[3] - 1

\* [datetime.strptime(date, "%Y-%m-%d").date() for date in dates], per habit
ParseCompletions(hc) ==
    [h \in DOMAIN hc |-> [i \in 1..Len(hc[h]) |-> strptime_Ymd(hc[h][i])]]

\* User.from_dict: ret is the exception raised, or "None" with the user built
User_from_dict(data, household) ==
    IF data.type # "dict"
    THEN [ret |-> "ValueError", message |-> "Data must be a dictionary"]
    ELSE IF data.username.type = "absent"
    THEN [ret |-> "KeyError", message |-> "Username is required"]
    ELSE LET points           == DictGetDefault(data.points, PyVal("int", 0))
             habits_completed == DictGetDefault(data.habits_completed, PyVal("dict", <<>>))
             streaks          == DictGetDefault(data.streaks, PyVal("dict", <<>>))
             bonus_claimed    == DictGetDefault(data.bonus_claimed, PyVal("dict", <<>>))
         IN  IF points.type \notin {"int", "float"} \/ points.value < 0
             THEN [ret |-> "ValueError", message |-> "Points must be a non-negative number"]
             ELSE IF habits_completed.type # "dict"
             \* .items() of a value that is not a dict
             THEN [ret |-> "AttributeError", message |-> "items"]
             ELSE IF streaks.type # "dict"
             THEN [ret |-> "ValueError", message |-> "Streaks must be a dictionary"]
             ELSE IF bonus_claimed.type # "dict"
             THEN [ret |-> "ValueError", message |-> "Bonus claimed must be a dictionary"]
             ELSE [ret |-> "None",
                   self |-> [username         |-> data.username.value,
                             household        |-> household,
                             points           |-> points.value,
                             habits_completed |-> ParseCompletions(habits_completed.value),
                             streaks          |-> streaks.value,
                             bonus_claimed    |-> bonus_claimed.value]]

\* User.get_bonus_points
User_get_bonus_points(u, habit_name) ==
    IF habit_name \notin DOMAIN u.streaks THEN 0
    ELSE IF u.streaks[habit_name] % 7 = 0 THEN 5 ELSE 0

----------------------------------------------------------------------------
(* The in-memory Household object.  A member is a User object, written      *)
(* <<username, points>>; every username names one User object.              *)

\* Household(name): self.members = []
Household_init == <<>>

\* Household.add_member: "if user not in self.members: append"
Household_add_member(ms, u) ==
    IF DictHas(ms, u[1]) THEN ms ELSE Append(ms, u)

\* User.add_points on a member: self.points += points
User_add_points(ms, username, points) ==
    DictSet(ms, username, DictGet(ms, username) + points)

\* a leaderboard in the order the members were added
Household_get_leaderboard_Unsorted(ms) == ms

\* Household.get_leaderboard: sorted(self.members, key=points, reverse=True)
Household_get_leaderboard(ms) == SortedDesc(ms)

----------------------------------------------------------------------------
(* The Habit constructor.  Here a name is the sequence of its characters,   *)
(* so that str.strip is computed and not assumed.                           *)

\* str.isspace for one character
isspace(c) == c \in {" ", "\t", "\n"}

RECURSIVE lstrip(_)
lstrip(s) == IF s # <<>> /\ isspace(Head(s)) THEN lstrip(Tail(s)) ELSE s

RECURSIVE rstrip(_)
rstrip(s) == IF s # <<>> /\ isspace(s[Len(s)]) THEN rstrip(SubSeq(s, 1, Len(s) - 1)) ELSE s

\* str.strip(): leading and trailing whitespace removed
strip(s) == rstrip(lstrip(s))

\* a test that only rejects the empty string
NameIsEmpty_NotStripped(name) == name = <<>>

\* Habit.__init__: "not name or not name.strip()"
NameIsEmpty(name) == name = <<>> \/ strip(name) = <<>>

\* Habit.__init__: the three checks in order, then the fields; ret is
\* "ValueError" with the message raised, or "None" with the object built
Habit_init(name, periodicity, points, is_bonus, now) ==
    IF NameIsEmpty(name)
    THEN [ret |-> "ValueError", message |-> "Habit name cannot be empty"]
    ELSE IF points < 0
    THEN [ret |-> "ValueError", message |-> "Points cannot be negative"]
    ELSE IF periodicity \notin {"daily", "weekly"}
    THEN [ret |-> "ValueError", message |-> "Periodicity must be either 'daily' or 'weekly'"]
    ELSE [ret |-> "None",
          self |-> [name        |-> strip(name),
                    periodicity |-> periodicity,
                    created_at  |-> now,
                    points      |-> points,
                    is_bonus    |-> is_bonus]]

----------------------------------------------------------------------------
(* Concurrent processes.  A process runs one DataManager.complete_habit;    *)
(* load_data and save_data are separate steps, and other processes run      *)
(* between them.                                                            *)

Procs == {1, 2}

\* a process that has not started: pc is its position, data its local copy
IdleProc == [pc |-> "idle", username |-> "", habit_name |-> "", data |-> EmptyDocument, ret |-> "None"]

NoProcs == [p \in Procs |-> IdleProc]

----------------------------------------------------------------------------
(* The operations as actions on the persisted document. *)

Called(op, username, habit_name, household_name, ret) ==
    [op |-> op, user |-> username, habit |-> habit_name, household |-> household_name, ret |-> ret]

NoCall == Called("", "", "", "", "None")

\* the user's points in the household complete_habit would credit, 0 for no household
HeldPoints(username) ==
    LET hh == FindHousehold(file, username)
    IN  IF hh = "" THEN 0 ELSE PointsOf(file, hh, username)

CreateHousehold(h) ==
    LET r == DM_create_household(file, h)
    IN  /\ file' = r.file
        /\ call' = Called("create_household", "", "", h, r.ret)
        /\ UNCHANGED <<today, user, args, done, leaderboard, calls, members, procs>>

SaveUser(u, h) ==
    LET r == DM_save_user(file, User_init(u, h, 0))
    IN  /\ file' = r.file
        /\ call' = Called("save_user", u, "", h, r.ret)
        /\ UNCHANGED <<today, user, args, done, leaderboard, calls, members, procs>>

AddUser(u, h) ==
    LET r == CLI_add_user(file, u, h)
    IN  /\ file' = r.file
        /\ call' = Called("add_user", u, "", h, r.ret)
        /\ UNCHANGED <<today, user, args, done, leaderboard, calls, members, procs>>

SaveHabit(habit) ==
    LET r == DM_save_habit(file, habit)
    IN  /\ file' = r.file
        /\ call' = Called("save_habit", "", habit.name, "", r.ret)
        /\ UNCHANGED <<today, user, args, done, leaderboard, calls, members, procs>>

SaveBonusHabit(habit) ==
    LET r == DM_save_bonus_habit(file, habit)
    IN  /\ file' = r.file
        /\ call' = Called("save_bonus_habit", "", habit.name, "", r.ret)
        /\ UNCHANGED <<today, user, args, done, leaderboard, calls, members, procs>>

CompleteHabit(u, name) ==
    /\ HeldPoints(u) < MaxPoints
    /\ LET r == DM_complete_habit(file, u, name, today)
       IN  /\ file' = r.file
           /\ call' = Called("complete_habit", u, name, FindHousehold(file, u), r.ret)
           /\ done' = IF r.ret = "True" THEN done \cup {<<"complete_habit", u, name, today>>} ELSE done
    /\ UNCHANGED <<today, user, args, leaderboard, calls, members, procs>>

ClaimBonusHabit(u, name) ==
    /\ HeldPoints(u) < MaxPoints
    /\ LET r == DM_claim_bonus_habit(file, u, name, today)
       IN  /\ file' = r.file
           /\ call' = Called("claim_bonus_habit", u, name, FindHousehold(file, u), r.ret)
           /\ done' = IF r.ret = "True" THEN done \cup {<<"claim_bonus_habit", u, name, today>>} ELSE done
    /\ UNCHANGED <<today, user, args, leaderboard, calls, members, procs>>

\* the clock: the next operation runs on a later day
NextDay ==
    /\ today < MaxDay
    /\ today' = today + 1
    /\ call' = NoCall
    /\ UNCHANGED <<file, user, args, done, leaderboard, calls, members, procs>>

----------------------------------------------------------------------------
(* The DataManager specification: one household, two users, one regular     *)
(* and one bonus habit, from the empty document.                            *)

Households == {"Home"}
Users == {"alice", "bob"}

\* Habit("Run", "daily", 2) and Habit("Chal", "weekly", 3, is_bonus=True)
Run == [name |-> "Run",  periodicity |-> "daily",  points |-> 2, is_bonus |-> FALSE]
Chal == [name |-> "Chal", periodicity |-> "weekly", points |-> 3, is_bonus |-> TRUE]

HabitNames == {"Run", "Chal"}

NoUser == [points |-> 0, habits_completed |-> <<>>, streaks |-> <<>>, bonus_claimed |-> <<>>]

Init ==
    /\ file = EmptyDocument
    /\ today = StartDay
    /\ user = NoUser
    /\ args = {}
    /\ done = {}
    /\ call = NoCall
    /\ leaderboard = Leaderboard_init(EmptyDocument)
    /\ calls = 0
    /\ members = Household_init
    /\ procs = NoProcs

Next ==
    \/ \E h \in Households : CreateHousehold(h)
    \/ \E u \in Users, h \in Households : SaveUser(u, h)
    \/ \E u \in Users, h \in Households : AddUser(u, h)
    \/ SaveHabit(Run)
    \/ SaveBonusHabit(Chal)
    \/ \E u \in Users, n \in HabitNames : CompleteHabit(u, n)
    \/ \E u \in Users, n \in HabitNames : ClaimBonusHabit(u, n)
    \/ NextDay

Spec == Init /\ [][Next]_vars

----------------------------------------------------------------------------
(* The Habit.complete specification: one user completes a daily habit and  *)
(* a weekly bonus habit while the days pass.                                *)

HabitComplete(habit) ==
    LET r == Habit_complete(habit, user, today)
    IN  /\ user' = r.user
        /\ call' = Called("Habit.complete", "", habit.name, "", r.ret)
        /\ UNCHANGED <<file, today, args, done, leaderboard, calls, members, procs>>

HabitNextDay ==
    /\ today < MaxHabitDay
    /\ today' = today + 1
    /\ call' = NoCall
    /\ UNCHANGED <<file, user, args, done, leaderboard, calls, members, procs>>

InitHabit ==
    /\ file = EmptyDocument
    /\ today = HabitStartDay
    /\ user = NoUser
    /\ args = {}
    /\ done = {}
    /\ call = NoCall
    /\ leaderboard = Leaderboard_init(EmptyDocument)
    /\ calls = 0
    /\ members = Household_init
    /\ procs = NoProcs

NextHabit ==
    \/ HabitComplete(Run)
    \/ HabitComplete(Chal)
    \/ HabitNextDay

SpecHabit == InitHabit /\ [][NextHabit]_vars

----------------------------------------------------------------------------
(* The track_completion specification: the caller supplies the dates, each  *)
(* a chosen number of days after the habit's last recorded one.             *)

\* the gaps, in days, between successive calls
Gaps == {1, 2, 7}
Periodicities == {"daily", "weekly"}
\* the points argument: None, or the habit's points
PointsArgs == {<<>>, <<2>>}

TrackCompletion(habit_name, gap, periodicity, points) ==
    LET known == habit_name \in DOMAIN user.habits_completed
        dates == IF known THEN user.habits_completed[habit_name] ELSE <<>>
        date  == IF dates = <<>> THEN HabitStartDay ELSE dates[Len(dates)] + gap
    IN  /\ Len(dates) < MaxLen
        /\ user' = User_track_completion(user, habit_name, date, periodicity, points)
        /\ args' = args \cup {<<periodicity, points>>}
        /\ call' = [op |-> "track_completion", habit |-> habit_name,
                     periodicity |-> periodicity, points |-> points]
        /\ UNCHANGED <<file, today, done, leaderboard, calls, members, procs>>

NextTrack ==
    \E g \in Gaps, per \in Periodicities, pts \in PointsArgs : TrackCompletion("Run", g, per, pts)

SpecTrack == InitHabit /\ [][NextTrack]_vars

----------------------------------------------------------------------------
(* The Leaderboard specification: Leaderboard.update and reset_monthly on   *)
(* two households, a bounded number of calls from the empty document.       *)

BoardHouseholds == {"Home", "Flat"}
\* the points a ranked user is updated with
RankPoints == {0, 1, 2}

LeaderboardUpdate(u, h, p) ==
    /\ calls < MaxCalls
    /\ file' = Leaderboard_update(file, User_init(u, h, p))
    /\ call' = [op |-> "Leaderboard.update", user |-> u, household |-> h, points |-> p, ret |-> "None"]
    /\ calls' = calls + 1
    /\ UNCHANGED <<today, user, args, done, leaderboard, members, procs>>

ResetMonthly ==
    /\ calls < MaxCalls
    /\ LET r == Leaderboard_reset_monthly(file, leaderboard, today)
       IN  /\ file' = r.file
           /\ leaderboard' = r.leaderboard
    /\ call' = Called("reset_monthly", "", "", "", "None")
    /\ calls' = calls + 1
    /\ UNCHANGED <<today, user, args, done, members, procs>>

NextBoard ==
    \/ \E h \in BoardHouseholds : CreateHousehold(h)
    \/ \E u \in Users, h \in BoardHouseholds, p \in RankPoints : LeaderboardUpdate(u, h, p)
    \/ ResetMonthly

SpecBoard == Init /\ [][NextBoard]_vars

----------------------------------------------------------------------------
(* The Household specification: three User objects join one Household,      *)
(* earn points, and the leaderboard is read.                                *)

Members == {"user1", "user2", "user3"}
\* points a User is constructed with, and points added at once
InitialPoints == {0, 1, 2}
AddedPoints == {1, 2}

AddMember(u, p) ==
    /\ members' = Household_add_member(members, <<u, p>>)
    /\ call' = [op |-> "add_member", user |-> u, ret |-> <<>>]
    /\ UNCHANGED <<file, today, user, args, done, leaderboard, calls, procs>>

AddPoints(u, p) ==
    /\ DictHas(members, u)
    /\ DictGet(members, u) + p <= MaxMemberPoints
    /\ members' = User_add_points(members, u, p)
    /\ call' = [op |-> "add_points", user |-> u, ret |-> <<>>]
    /\ UNCHANGED <<file, today, user, args, done, leaderboard, calls, procs>>

GetLeaderboard ==
    /\ call' = [op |-> "get_leaderboard", user |-> "", ret |-> Household_get_leaderboard(members)]
    /\ UNCHANGED <<file, today, user, args, done, leaderboard, calls, members, procs>>

NextHousehold ==
    \/ \E u \in Members, p \in InitialPoints : AddMember(u, p)
    \/ \E u \in Members, p \in AddedPoints : AddPoints(u, p)
    \/ GetLeaderboard

SpecHousehold == Init /\ [][NextHousehold]_vars

----------------------------------------------------------------------------
(* The Habit constructor specification: Habit(...) is called once, with any *)
(* combination of a short name, a periodicity, a points value and a flag.   *)

NameChars == {" ", "\t", "a", "b"}
Names == UNION {[1..n -> NameChars] : n \in 0..MaxNameLen}
PeriodicityArgs == {"daily", "weekly", "monthly", ""}
HabitPointsArgs == {-1, 0, 1}

NewHabit(name, periodicity, points, is_bonus) ==
    /\ call = NoCall
    /\ call' = [op |-> "Habit", name |-> name, periodicity |-> periodicity,
                points |-> points, is_bonus |-> is_bonus,
                result |-> Habit_init(name, periodicity, points, is_bonus, today)]
    /\ UNCHANGED <<file, today, user, args, done, leaderboard, calls, members, procs>>

NextConstruct ==
    \E name \in Names, periodicity \in PeriodicityArgs, points \in HabitPointsArgs,
       is_bonus \in BOOLEAN : NewHabit(name, periodicity, points, is_bonus)

SpecConstruct == Init /\ [][NextConstruct]_vars

----------------------------------------------------------------------------
(* The membership specification: create_household and save_user on two      *)
(* households and two users, from the empty document.                       *)

NextSetup ==
    \/ \E h \in BoardHouseholds : CreateHousehold(h)
    \/ \E u \in Users, h \in BoardHouseholds : SaveUser(u, h)

SpecSetup == Init /\ [][NextSetup]_vars

----------------------------------------------------------------------------
(* The command specification: the DataManager operations of one day on one  *)
(* household, with the cli's complete_habit, clear_data and the lookups.    *)

\* the household names looked up: one that is created and one that never is
LookupHouseholds == {"Home", "Flat"}

CliCompleteHabit(u, name) ==
    /\ HeldPoints(u) < MaxPoints
    /\ LET r == CLI_complete_habit(file, u, name, today)
       IN  /\ file' = r.file
           /\ call' = Called("cli.complete_habit", u, name, FindHousehold(file, u), r.ret)
           /\ done' = IF r.ret # "Habit not found"
                      THEN done \cup {<<"complete_habit", u, name, today>>} ELSE done
    /\ UNCHANGED <<today, user, args, leaderboard, calls, members, procs>>

ClearData ==
    LET r == DM_clear_data(file)
    IN  /\ file' = r.file
        /\ call' = Called("clear_data", "", "", "", r.ret)
        /\ UNCHANGED <<today, user, args, done, leaderboard, calls, members, procs>>

GetHabit(name) ==
    /\ call' = [op |-> "get_habit", habit |-> name, ret |-> DM_get_habit(file, name)]
    /\ UNCHANGED <<file, today, user, args, done, leaderboard, calls, members, procs>>

GetSortedRankings(h) ==
    /\ call' = [op |-> "get_sorted_rankings", household |-> h, ret |-> get_sorted_rankings(file, h)]
    /\ UNCHANGED <<file, today, user, args, done, leaderboard, calls, members, procs>>

NextCli ==
    \/ \E h \in Households : CreateHousehold(h)
    \/ \E u \in Users, h \in Households : AddUser(u, h)
    \/ SaveHabit(Run)
    \/ SaveBonusHabit(Chal)
    \/ \E u \in Users, n \in HabitNames : CompleteHabit(u, n)
    \/ \E u \in Users, n \in HabitNames : ClaimBonusHabit(u, n)
    \/ \E u \in Users, n \in HabitNames : CliCompleteHabit(u, n)
    \/ ClearData
    \/ \E n \in HabitNames : GetHabit(n)
    \/ \E h \in LookupHouseholds : GetSortedRankings(h)

SpecCli == Init /\ [][NextCli]_vars

----------------------------------------------------------------------------
(* The from_dict specification: User.from_dict is called once, with any     *)
(* record built from the values below.                                      *)

Absent == PyVal("absent", 0)
UsernameValues == {Absent, PyVal("str", "test_user")}
PointsValues == {Absent, PyVal("int", -1), PyVal("int", 0), PyVal("int", 10),
                 PyVal("float", 2), PyVal("str", 0)}
StreaksValues == {Absent, PyVal("dict", <<>>), PyVal("dict", [h \in {"Exercise"} |-> 1]),
                  PyVal("list", <<>>)}
BonusClaimedValues == {Absent, PyVal("dict", <<>>),
                       PyVal("dict", [h \in {"Chal"} |-> <<52, 2024>>]), PyVal("list", <<>>)}
HabitsCompletedValues ==
    {Absent, PyVal("dict", <<>>),
     PyVal("dict", [h \in {"Exercise"} |-> <<<<2024, 12, 30>>>>]),
     PyVal("dict", [h \in {"Exercise"} |-> <<<<2024, 12, 31>>, <<2025, 1, 1>>>>]),
     PyVal("list", <<>>)}
\* the records, and "not a dict"
FromDictArgs ==
    {[type |-> "str", username |-> Absent, points |-> Absent,
      habits_completed |-> Absent, streaks |-> Absent, bonus_claimed |-> Absent]}
    \cup [type : {"dict"}, username : UsernameValues, points : PointsValues,
          habits_completed : HabitsCompletedValues, streaks : StreaksValues,
          bonus_claimed : BonusClaimedValues]

FromDict(data) ==
    /\ call = NoCall
    /\ call' = [op |-> "from_dict", data |-> data, result |-> User_from_dict(data, "None")]
    /\ UNCHANGED <<file, today, user, args, done, leaderboard, calls, members, procs>>

NextFromDict == \E data \in FromDictArgs : FromDict(data)

SpecFromDict == Init /\ [][NextFromDict]_vars

----------------------------------------------------------------------------
(* The reset specification: the DataManager operations of one day on one    *)
(* household, with reset_habits and reset_monthly_scores called a bounded   *)
(* number of times.                                                         *)

ResetHabits ==
    /\ calls < MaxResets
    /\ LET r == DM_reset_habits(file, today)
       IN  /\ file' = r.file
           /\ call' = Called("reset_habits", "", "", "", r.ret)
    /\ calls' = calls + 1
    /\ UNCHANGED <<today, user, args, done, leaderboard, members, procs>>

ResetMonthlyScores ==
    /\ calls < MaxResets
    /\ LET r == DM_reset_monthly_scores(file)
       IN  /\ file' = r.file
           /\ call' = Called("reset_monthly_scores", "", "", "", r.ret)
    /\ calls' = calls + 1
    /\ UNCHANGED <<today, user, args, done, leaderboard, members, procs>>

NextReset ==
    \/ \E h \in Households : CreateHousehold(h)
    \/ \E u \in Users, h \in Households : SaveUser(u, h)
    \/ SaveHabit(Run)
    \/ SaveBonusHabit(Chal)
    \/ \E u \in Users, n \in HabitNames : CompleteHabit(u, n)
    \/ \E u \in Users, n \in HabitNames : ClaimBonusHabit(u, n)
    \/ ResetHabits
    \/ ResetMonthlyScores

SpecReset == Init /\ [][NextReset]_vars

----------------------------------------------------------------------------
(* The bonus-points specification: one User is rebuilt by User.from_dict    *)
(* from a record with stored streaks, and get_bonus_points is read.         *)

\* the streaks dict of the record: "Run" with any streak up to MaxStreak,
\* "Chal" missing or with a streak of 0 or 7
StoredStreaks ==
    {[h \in {"Run"} |-> n] : n \in 0..MaxStreak}
    \cup {[h \in {"Run", "Chal"} |-> IF h = "Run" THEN n ELSE c] : n \in 0..MaxStreak, c \in {0, 7}}
BonusHabitNames == {"Run", "Chal", "Swim"}

LoadUser(streaks) ==
    /\ user = NoUser
    /\ LET data == [type |-> "dict", username |-> PyVal("str", "test_user"), points |-> Absent,
                    habits_completed |-> Absent, streaks |-> PyVal("dict", streaks),
                    bonus_claimed |-> Absent]
           r    == User_from_dict(data, "None")
       IN  /\ r.ret = "None"
           /\ user' = r.self
    /\ call' = [op |-> "from_dict", habit |-> "", ret |-> 0]
    /\ UNCHANGED <<file, today, args, done, leaderboard, calls, members, procs>>

GetBonusPoints(habit_name) ==
    /\ call' = [op |-> "get_bonus_points", habit |-> habit_name,
                ret |-> User_get_bonus_points(user, habit_name)]
    /\ UNCHANGED <<file, today, user, args, done, leaderboard, calls, members, procs>>

NextBonus ==
    \/ \E streaks \in StoredStreaks : LoadUser(streaks)
    \/ \E n \in BonusHabitNames : GetBonusPoints(n)

SpecBonus == Init /\ [][NextBonus]_vars

----------------------------------------------------------------------------
(* The creation specification: create_household, save_user, save_habit and  *)
(* save_bonus_habit, each repeated, with habits that share a name across    *)
(* the two categories and within one.                                       *)

\* Run and Chal, Run with other points, Chal as a regular habit
CreateHabits ==
    {Run, Chal, [Run EXCEPT !.points = 3], [Chal EXCEPT !.is_bonus = FALSE]}

NextCreate ==
    \/ \E h \in Households : CreateHousehold(h)
    \/ \E u \in Users, h \in Households : SaveUser(u, h)
    \/ \E habit \in CreateHabits : SaveHabit(habit)
    \/ \E habit \in CreateHabits : SaveBonusHabit(habit)

SpecCreate == Init /\ [][NextCreate]_vars

----------------------------------------------------------------------------
(* The month-end specification: the cli's commands of one day on one        *)
(* household, with reset_monthly_scores run a bounded number of times and   *)
(* view_top_performers.                                                     *)

CliResetMonthlyScores ==
    /\ calls < MaxResets
    /\ LET r == CLI_reset_monthly_scores(file, leaderboard, today)
       IN  /\ file' = r.file
           /\ leaderboard' = r.leaderboard
           /\ call' = Called("cli.reset_monthly_scores", "", "", "", r.ret)
    /\ calls' = calls + 1
    /\ UNCHANGED <<today, user, args, done, members, procs>>

ViewTopPerformers ==
    /\ call' = [op |-> "view_top_performers", ret |-> CLI_view_top_performers(file)]
    /\ UNCHANGED <<file, today, user, args, done, leaderboard, calls, members, procs>>

NextMonth ==
    \/ \E h \in Households : CreateHousehold(h)
    \/ \E u \in Users, h \in Households : AddUser(u, h)
    \/ SaveHabit(Run)
    \/ \E u \in Users, n \in HabitNames : CliCompleteHabit(u, n)
    \/ CliResetMonthlyScores
    \/ ViewTopPerformers

SpecMonth == Init /\ [][NextMonth]_vars

----------------------------------------------------------------------------
(* The archive specification: one Leaderboard instance, built on the empty  *)
(* document, through a bounded number of Leaderboard.update and             *)
(* reset_monthly calls, with create_household, clear_data and the two       *)
(* getters of the instance.                                                 *)

GetPastRankings ==
    /\ call' = [op |-> "get_past_rankings", ret |-> Leaderboard_get_past_rankings(leaderboard)]
    /\ UNCHANGED <<file, today, user, args, done, leaderboard, calls, members, procs>>

GetTopPerformers ==
    /\ call' = [op |-> "get_top_performers", ret |-> Leaderboard_get_top_performers(leaderboard)]
    /\ UNCHANGED <<file, today, user, args, done, leaderboard, calls, members, procs>>

NextArchive ==
    \/ \E h \in Households : CreateHousehold(h)
    \/ \E u \in Users, h \in Households, p \in RankPoints : LeaderboardUpdate(u, h, p)
    \/ ResetMonthly
    \/ ClearData
    \/ GetPastRankings
    \/ GetTopPerformers

SpecArchive == Init /\ [][NextArchive]_vars

----------------------------------------------------------------------------
(* The concurrency specification: the household, its users and the habit    *)
(* are set up, then two processes run complete_habit step by step.          *)

AllIdle == \A p \in Procs : procs[p].pc = "idle"

\* complete_habit, lines 123-154: data = load_data(), the two lookups, and
\* the changes to the local copy
ProcLoad(p, username, habit_name) ==
    /\ procs[p].pc = "idle"
    /\ LET data  == file
           habit == FindHabit(data.habits, habit_name)
           hh    == FindHousehold(data, username)
       IN  IF habit = NoHabit \/ hh = ""
           THEN procs' = [procs EXCEPT ![p] = [pc |-> "done", username |-> username,
                              habit_name |-> habit_name, data |-> data, ret |-> "False"]]
           ELSE procs' = [procs EXCEPT ![p] = [pc |-> "loaded", username |-> username,
                              habit_name |-> habit_name,
                              data |-> RecordCompletion(CompleteStreakAndPoints(data, hh, username, habit),
                                                        today, habit_name, username),
                              ret |-> "None"]]
    /\ call' = [op |-> "complete_habit.load", proc |-> p]
    /\ UNCHANGED <<file, today, user, args, done, leaderboard, calls, members>>

\* complete_habit, lines 157-158: DataManager.update_leaderboard(user), which
\* loads and saves the file itself
ProcUpdateLeaderboard(p) ==
    /\ procs[p].pc = "loaded"
    /\ LET data == procs[p].data
           hh   == FindHousehold(data, procs[p].username)
       IN  file' = DM_update_leaderboard(file, User_init(procs[p].username, hh,
                                                        PointsOf(data, hh, procs[p].username)))
    /\ procs' = [procs EXCEPT ![p].pc = "ranked"]
    /\ call' = [op |-> "complete_habit.update_leaderboard", proc |-> p]
    /\ UNCHANGED <<today, user, args, done, leaderboard, calls, members>>

\* complete_habit, lines 160-161: save_data(data); return True
ProcSave(p) ==
    /\ procs[p].pc = "ranked"
    /\ file' = save_data(file, procs[p].data)
    /\ procs' = [procs EXCEPT ![p].pc = "done", ![p].ret = "True"]
    /\ call' = [op |-> "complete_habit.save", proc |-> p]
    /\ UNCHANGED <<today, user, args, done, leaderboard, calls, members>>

NextRace ==
    \/ \E h \in Households : AllIdle /\ CreateHousehold(h)
    \/ \E u \in Users, h \in Households : AllIdle /\ SaveUser(u, h)
    \/ AllIdle /\ SaveHabit(Run)
    \/ \E p \in Procs, u \in Users, n \in HabitNames : ProcLoad(p, u, n)
    \/ \E p \in Procs : ProcUpdateLeaderboard(p)
    \/ \E p \in Procs : ProcSave(p)

SpecRace == Init /\ [][NextRace]_vars

----------------------------------------------------------------------------
(* Claims about User.track_completion (SpecTrack). *)

\* days between two successive completions that keep a streak going
PeriodDays(periodicity) == IF periodicity = "daily" THEN 1 ELSE 7

\* every successive gap of the dates s[from..Len(s)] is exactly `days`
ExactGaps(s, from, days) == \A i \in (from + 1)..Len(s) : s[i] - s[i - 1] = days

\* length of the longest suffix of s in which every successive gap is exactly `days`
LongestExactSuffix(s, days) ==
    Len(s) + 1 - (CHOOSE from \in 1..Len(s) :
                    /\ ExactGaps(s, from, days)
                    /\ \A g \in 1..(from - 1) : ~ExactGaps(s, g, days))

\* C7: after every User.track_completion(habit, date, periodicity), streaks[habit]
\* is the length of the longest suffix of the habit's completion history whose
\* successive gaps are all exactly 1 day (daily) or 7 days (weekly).
C7_StreakIsLongestExactSuffix ==
    call.op = "track_completion" =>
        user.streaks[call.habit] =
            LongestExactSuffix(user.habits_completed[call.habit], PeriodDays(call.periodicity))

\* a streak of 2 rebuilt after a broken gap: four entries, the second gap off-period
C7_Witness ==
    /\ call.op = "track_completion"
    /\ Len(user.habits_completed[call.habit]) = 4
    /\ user.streaks[call.habit] = 2
    /\ ~ExactGaps(user.habits_completed[call.habit], 2, PeriodDays(call.periodicity))

\* C9: k calls of track_completion on k consecutive on-period dates, each with the
\* explicit point value p, from a user with no history, leave the user with
\* k*p + 5*floor(k/7) points.
C9_PointsAfterConsecutive ==
    \A per \in Periodicities, pts \in PointsArgs \ {<<>>} :
        ( /\ args = {<<per, pts>>}
          /\ DOMAIN user.habits_completed = {"Run"}
          /\ ExactGaps(user.habits_completed["Run"], 1, PeriodDays(per)) )
        => LET k == Len(user.habits_completed["Run"])
           IN  user.points = k * pts[1] + 5 * (k \div 7)

\* seven consecutive daily completions with explicit points: the bonus was added once
C9_Witness ==
    /\ args = {<<"daily", <<2>>>>}
    /\ DOMAIN user.habits_completed = {"Run"}
    /\ Len(user.habits_completed["Run"]) = 7
    /\ ExactGaps(user.habits_completed["Run"], 1, 1)
    /\ user.points = 19

----------------------------------------------------------------------------
(* Claims about Habit.complete (SpecHabit). *)

\* the dates on which the user completed the habit
CompletedDates(u, habit_name) ==
    IF habit_name \in DOMAIN u.habits_completed
    THEN {u.habits_completed[habit_name][i] : i \in 1..Len(u.habits_completed[habit_name])}
    ELSE {}

\* the Monday that starts the calendar week of day d
MondayOf(d) == d - weekday(d)

\* C3: Habit.complete(user) for a habit the user already completed on the current
\* day is rejected with the 'already been completed today' message and leaves the
\* user's points, completion history, streaks and bonus_claimed unchanged.
C3_CompletedTodayRejected ==
    [][ ( /\ call'.op = "Habit.complete"
          /\ today \in CompletedDates(user, call'.habit) )
        => ( /\ call'.ret = "already been completed today"
             /\ user' = user ) ]_vars

\* a second call on a day with a completion was rejected
C3_Witness ==
    /\ call.op = "Habit.complete"
    /\ call.ret = "already been completed today"
    /\ today \in CompletedDates(user, call.habit)
    /\ user.points > 0

\* C6: for a bonus habit completed through Habit.complete, a second claim on any
\* day of the calendar week of an earlier successful claim is rejected without
\* changing the user's points, and a claim in a calendar week without an earlier
\* claim succeeds.
C6_OncePerCalendarWeek ==
    [][ ( /\ call'.op = "Habit.complete"
          /\ call'.habit = Chal.name )
        => LET earlier == CompletedDates(user, Chal.name)
           IN  /\ (\E d \in earlier : MondayOf(d) = MondayOf(today))
                    => (call'.ret # "Good job" /\ user'.points = user.points)
               /\ (\A d \in earlier : MondayOf(d) # MondayOf(today))
                    => call'.ret = "Good job" ]_vars

\* C8: a successful Habit.complete that brings the streak to a positive multiple
\* of 7 adds exactly base points + 5 to the user's total, every other successful
\* completion adds exactly the base points.
C8_PointsPerCompletion ==
    [][ \A habit \in {Run, Chal} :
        ( /\ call'.op = "Habit.complete"
          /\ call'.habit = habit.name
          /\ call'.ret = "Good job" )
        => user'.points - user.points =
              habit.points + (IF user'.streaks[habit.name] % 7 = 0 THEN 5 ELSE 0) ]_vars

----------------------------------------------------------------------------
(* Claims about DataManager.complete_habit and claim_bonus_habit (Spec). *)

\* the last operation was a successful call of op
Returned(c, op, ret) == c.op = op /\ c.ret = ret

\* streaks[u][h] of the document, 0 when there is no counter
StreakOf(data, u, h) ==
    IF u \in DOMAIN data.streaks /\ h \in DOMAIN data.streaks[u] THEN data.streaks[u][h] ELSE 0

\* the points of every user other than u, in every household, and their streaks
OthersOf(data, u) ==
    [ points  |-> [i \in 1..Len(data.households) |->
                      [v \in DOMAIN data.households[i][2].points \ {u} |->
                          data.households[i][2].points[v]]],
      streaks |-> [v \in DOMAIN data.streaks \ {u} |-> data.streaks[v]] ]

\* C1: after a successful DataManager.complete_habit(u, h) the persisted
\* leaderboard.rankings[H][u], H being u's household, exists and equals
\* households[H].points[u], so get_sorted_rankings(H) lists u with that total.
C1_RankingFollowsCompletion ==
    Returned(call, "complete_habit", "True") =>
        /\ DictHas(file.leaderboard.rankings, call.household)
        /\ DictHas(DictGet(file.leaderboard.rankings, call.household), call.user)
        /\ DictGet(DictGet(file.leaderboard.rankings, call.household), call.user)
             = PointsOf(file, call.household, call.user)
        /\ DictHas(get_sorted_rankings(file, call.household), call.user)

\* C2: a successful DataManager.complete_habit(u, h) adds exactly the stored base
\* points of h to households[H].points[u], adds exactly 1 to streaks[u][h] (1 on
\* the first completion), and changes no other user's points or streaks.
C2_CompletionEffect ==
    [][ Returned(call', "complete_habit", "True") =>
        /\ PointsOf(file', call'.household, call'.user)
             = PointsOf(file, call'.household, call'.user)
               + FindHabit(file.habits, call'.habit).points
        /\ StreakOf(file', call'.user, call'.habit) = StreakOf(file, call'.user, call'.habit) + 1
        /\ OthersOf(file', call'.user) = OthersOf(file, call'.user) ]_vars

\* alice completed Run a second time while bob holds points and a streak of his own
C2_Witness ==
    /\ Returned(call, "complete_habit", "True")
    /\ call.user = "alice"
    /\ StreakOf(file, "alice", "Run") = 2
    /\ StreakOf(file, "bob", "Run") = 1
    /\ PointsOf(file, "Home", "bob") > 0

\* C4: of two DataManager.complete_habit(u, h) calls on the same day for the same
\* user and non-bonus habit the first succeeds and adds the base points, the
\* second is rejected and leaves the user's points and streak unchanged.
C4_SecondCompletionRejected ==
    [][ ( /\ call'.op = "complete_habit"
          /\ FindHabit(file.habits, call'.habit) # NoHabit
          /\ call'.household # "" )
        => LET before == PointsOf(file, call'.household, call'.user)
               after  == PointsOf(file', call'.household, call'.user)
           IN  IF <<"complete_habit", call'.user, call'.habit, today>> \in done
               THEN /\ call'.ret = "False"
                    /\ after = before
                    /\ StreakOf(file', call'.user, call'.habit)
                         = StreakOf(file, call'.user, call'.habit)
               ELSE /\ call'.ret = "True"
                    /\ after = before + FindHabit(file.habits, call'.habit).points ]_vars

\* the first day of the bonus habit's period that contains day d
PeriodStart(habit, d) == IF habit.periodicity = "weekly" THEN MondayOf(d) ELSE d

\* C5: whatever other users claim in between, a user is awarded a bonus habit's
\* points at most once per period (the day for a daily bonus habit, the week
\* started on Monday for a weekly one): a further claim in the period returns
\* False and leaves the user's points unchanged.
C5_OneClaimPerPeriod ==
    [][ ( /\ call'.op = "claim_bonus_habit"
          /\ call'.habit = Chal.name
          /\ \E d \in PeriodStart(Chal, today)..today :
                <<"claim_bonus_habit", call'.user, Chal.name, d>> \in done )
        => ( /\ call'.ret = "False"
             /\ PointsOf(file', call'.household, call'.user)
                  = PointsOf(file, call'.household, call'.user) ) ]_vars

\* the day of the user's latest successful complete_habit of the habit, -1 for none
LastCompleted(u, h) ==
    LET days == {d \in 0..today : <<"complete_habit", u, h, d>> \in done}
    IN  IF days = {} THEN 0 - 1 ELSE CHOOSE d \in days : \A e \in days : e <= d

\* C10: a successful DataManager.complete_habit(u, h) increments streaks[u][h] by 1
\* when the gap since u's previous completion of h is exactly one period (1 day
\* for daily, 7 days for weekly) and sets it to 1 otherwise; no stored streak is
\* negative.
C10_StreakIncrementOrReset ==
    [][ Returned(call', "complete_habit", "True") =>
        LET habit == FindHabit(file.habits, call'.habit)
            last  == LastCompleted(call'.user, call'.habit)
        IN  /\ StreakOf(file', call'.user, call'.habit) =
                  IF last >= 0 /\ today - last = PeriodDays(habit.periodicity)
                  THEN StreakOf(file, call'.user, call'.habit) + 1
                  ELSE 1
            /\ \A u \in DOMAIN file'.streaks : \A h \in DOMAIN file'.streaks[u] :
                  file'.streaks[u][h] >= 0 ]_vars

----------------------------------------------------------------------------
(* Claims about Leaderboard.update and reset_monthly (SpecBoard). *)

\* the largest points value among the entries
MaxPointsOf(entries) ==
    CHOOSE m \in {entries[i][2] : i \in 1..Len(entries)} :
        \A i \in 1..Len(entries) : entries[i][2] <= m

\* C11: in every archive record reset_monthly wrote, points is the maximum
\* point value over all households of the record's snapshot and top_user is
\* the first user, in iteration order over households and users, who holds
\* that maximum.
C11_TopUserHoldsMaximum ==
    \A r \in 1..Len(file.leaderboard.past_rankings) :
        LET rec     == file.leaderboard.past_rankings[r]
            entries == AllEntries(rec.rankings)
            m       == MaxPointsOf(entries)
        IN  /\ rec.points = m
            /\ \E k \in 1..Len(entries) :
                   /\ entries[k][2] = m
                   /\ \A j \in 1..(k - 1) : entries[j][2] < m
                   /\ rec.top_user = entries[k][1]

NonEmptyHouseholds(rankings) == {rankings[i][1] : i \in {j \in 1..Len(rankings) : rankings[j][2] # <<>>}}

IsDescending(s) == \A i \in 1..(Len(s) - 1) : s[i][2] >= s[i + 1][2]

\* the two rankings hold the same (username, points) entries, each user once
SameEntries(a, b) ==
    /\ Len(a) = Len(b)
    /\ {a[i] : i \in 1..Len(a)} = {b[i] : i \in 1..Len(b)}
    /\ Cardinality(DictKeys(a)) = Len(a)

\* C12: a reset_monthly that finds at least one non-empty ranking appends
\* exactly one archive record; the record's snapshot holds exactly the
\* households with a non-empty ranking, each with the same entries sorted by
\* points descending; afterwards get_sorted_rankings is empty for every
\* household.
C12_ResetArchivesAndClears ==
    [][(call'.op = "reset_monthly" /\ NonEmptyHouseholds(file.leaderboard.rankings) # {}) =>
        LET rankings == file.leaderboard.rankings
            past     == file.leaderboard.past_rankings
            past2    == file'.leaderboard.past_rankings
            snap     == past2[Len(past2)].rankings
        IN  /\ Len(past2) = Len(past) + 1
            /\ SubSeq(past2, 1, Len(past)) = past
            /\ DictKeys(snap) = NonEmptyHouseholds(rankings)
            /\ Cardinality(DictKeys(snap)) = Len(snap)
            /\ \A h \in DictKeys(snap) :
                   /\ SameEntries(DictGet(snap, h), DictGet(rankings, h))
                   /\ IsDescending(DictGet(snap, h))
            /\ \A h \in BoardHouseholds : get_sorted_rankings(file', h) = <<>>
      ]_vars

\* reset_monthly has just archived the rankings of two households
C12_Witness ==
    /\ call.op = "reset_monthly"
    /\ file.leaderboard.past_rankings # <<>>
    /\ LET snap == file.leaderboard.past_rankings[Len(file.leaderboard.past_rankings)].rankings
       IN  Len(snap) = 2
    /\ file.leaderboard.rankings = <<>>

\* C13 as stated: a reset_monthly that finds no non-empty ranking appends no
\* archive record and leaves the persisted rankings exactly as they were,
\* households that map to an empty ranking included.
C13_EmptyResetLeavesRankings ==
    [][(call'.op = "reset_monthly" /\ NonEmptyHouseholds(file.leaderboard.rankings) = {}) =>
        /\ file'.leaderboard.past_rankings = file.leaderboard.past_rankings
        /\ file'.leaderboard.rankings = file.leaderboard.rankings
      ]_vars

\* C13 amended: a reset_monthly that finds no non-empty ranking appends no
\* archive record, to the file or to the instance, and changes nothing of the
\* document but the rankings, which become the empty mapping: the households
\* that mapped to an empty ranking lose their key.
C13_EmptyResetClearsKeys ==
    [][(call'.op = "reset_monthly" /\ NonEmptyHouseholds(file.leaderboard.rankings) = {}) =>
        /\ file' = [file EXCEPT !.leaderboard.rankings = <<>>]
        /\ leaderboard' = leaderboard
      ]_vars

\* reset_monthly has run, nothing was ever archived, and a household exists
\* whose empty ranking create_household had stored
C13_Witness ==
    /\ call.op = "reset_monthly"
    /\ file.leaderboard.past_rankings = <<>>
    /\ file.households # <<>>
    /\ file.leaderboard.rankings = <<>>

\* the position of key k in the dict d
PositionOf(d, k) == CHOOSE i \in 1..Len(d) : d[i][1] = k

\* C14: after a Leaderboard.update the persisted ranking of the household is
\* ordered by points descending, users with equal points keep the relative
\* order they had (a new user counts as last), the updated user's entry is
\* that user's points, the other entries are unchanged, and
\* get_sorted_rankings returns the entries in that same order.
C14_UpdateKeepsRankingSorted ==
    [][(call'.op = "Leaderboard.update" /\ calls' = calls + 1) =>
        LET h     == call'.household
            u     == call'.user
            r0    == file.leaderboard.rankings
            r1    == file'.leaderboard.rankings
            old   == IF DictHas(r0, h) THEN DictGet(r0, h) ELSE <<>>
            prior == IF DictHas(old, u) THEN old ELSE Append(old, <<u, call'.points>>)
            new   == DictGet(r1, h)
        IN  /\ DictHas(r1, h)
            /\ IsDescending(new)
            /\ DictKeys(new) = DictKeys(old) \cup {u}
            /\ Cardinality(DictKeys(new)) = Len(new)
            /\ DictGet(new, u) = call'.points
            /\ \A a \in DictKeys(old) \ {u} : DictGet(new, a) = DictGet(old, a)
            /\ \A a, b \in DictKeys(new) :
                   (DictGet(new, a) = DictGet(new, b) /\ PositionOf(prior, a) < PositionOf(prior, b))
                       => PositionOf(new, a) < PositionOf(new, b)
            /\ get_sorted_rankings(file', h) = new
            /\ \A g \in DictKeys(r0) \ {h} : DictHas(r1, g) /\ DictGet(r1, g) = DictGet(r0, g)
      ]_vars

\* the user just updated ties with the user ranked behind it
C14_Witness ==
    /\ call.op = "Leaderboard.update"
    /\ LET new == DictGet(file.leaderboard.rankings, call.household)
       IN  /\ Len(new) = 2
           /\ new[1][2] = new[2][2]
           /\ new[1][1] = call.user

----------------------------------------------------------------------------
(* Claims about Household.get_leaderboard (SpecHousehold). *)

\* C15: get_leaderboard returns exactly the members, each once, ordered by
\* points descending, members with equal points in the order they were
\* added, and leaves the member list unchanged.
C15_LeaderboardOrdersMembers ==
    [][call'.op = "get_leaderboard" =>
        LET ret == call'.ret
        IN  /\ members' = members
            /\ SameEntries(ret, members)
            /\ IsDescending(ret)
            /\ \A a, b \in DictKeys(members) :
                   (DictGet(members, a) = DictGet(members, b)
                        /\ PositionOf(members, a) < PositionOf(members, b))
                       => PositionOf(ret, a) < PositionOf(ret, b)
      ]_vars

\* the leaderboard of three members differs from the insertion order and
\* two of the members tie
C15_Witness ==
    /\ call.op = "get_leaderboard"
    /\ Len(members) = 3
    /\ call.ret # members
    /\ \E i, j \in 1..3 : i # j /\ members[i][2] = members[j][2]

----------------------------------------------------------------------------
(* Claims about the Habit constructor (SpecConstruct). *)

\* t is s without its leading and trailing whitespace
IsTrimOf(t, s) ==
    \E i \in 1..Len(s), j \in 1..Len(s) :
        /\ i <= j
        /\ t = SubSeq(s, i, j)
        /\ ~isspace(s[i]) /\ ~isspace(s[j])
        /\ \A k \in 1..Len(s) : (k < i \/ k > j) => isspace(s[k])

\* C16: Habit(...) raises ValueError whenever the name is empty or only
\* whitespace, the points are negative, or the periodicity is neither
\* "daily" nor "weekly"; otherwise it succeeds and the stored name is the
\* name without leading and trailing whitespace, the other fields as given.
C16_HabitValidation ==
    call.op = "Habit" =>
        LET invalid == \/ \A k \in 1..Len(call.name) : isspace(call.name[k])
                       \/ call.points < 0
                       \/ ~(call.periodicity = "daily" \/ call.periodicity = "weekly")
        IN  IF invalid
            THEN call.result.ret = "ValueError"
            ELSE /\ call.result.ret = "None"
                 /\ IsTrimOf(call.result.self.name, call.name)
                 /\ call.result.self.periodicity = call.periodicity
                 /\ call.result.self.points = call.points
                 /\ call.result.self.is_bonus = call.is_bonus

\* a habit was built from a name with whitespace on both sides
C16_Witness ==
    /\ call.op = "Habit"
    /\ call.result.ret = "None"
    /\ Len(call.name) = 3
    /\ Len(call.result.self.name) = 1

\* a name of whitespace only was rejected although points and periodicity are valid
C16_WitnessRejected ==
    /\ call.op = "Habit"
    /\ call.result.ret = "ValueError"
    /\ Len(call.name) = 2
    /\ call.points = 1 /\ call.periodicity = "weekly"

----------------------------------------------------------------------------
(* Claims about household membership (SpecSetup). *)

\* the households whose members list holds the user
HouseholdsOf(data, username) ==
    {h \in DictKeys(data.households) : IsMember(DictGet(data.households, h), username)}

\* C17: after any sequence of create_household and save_user calls every
\* username is in the members of at most one household.
C17_OneHouseholdPerUser ==
    \A u \in Users : Cardinality(HouseholdsOf(file, u)) <= 1

----------------------------------------------------------------------------
(* Claims about the commands and the lookups (SpecCli). *)

\* C18: clear_data, in any state, completes without raising and leaves the
\* document equal to the empty skeleton.
C18_ClearDataCompletes ==
    call.op = "clear_data" => (call.ret = "None" /\ file = EmptyDocument)

\* C19: the cli's complete_habit, for a user who is a member of a household
\* and a habit stored only as a bonus habit the user has not claimed in the
\* period, claims it: it reports "Bonus Habit '<name>' claimed" and the
\* user's points grow by the bonus habit's points.
C19_CliClaimsBonusHabit ==
    [][(/\ call'.op = "cli.complete_habit"
        /\ FindHousehold(file, call'.user) # ""
        /\ FindHabit(file.habits, call'.habit) = NoHabit
        /\ FindHabit(file.bonus_habits, call'.habit) # NoHabit
        /\ ~ClaimedThisPeriod(file, call'.user, FindHabit(file.bonus_habits, call'.habit), today)) =>
        LET hh    == FindHousehold(file, call'.user)
            bonus == FindHabit(file.bonus_habits, call'.habit)
        IN  /\ call'.ret = "Bonus Habit claimed"
            /\ PointsOf(file', hh, call'.user) = PointsOf(file, hh, call'.user) + bonus.points
      ]_vars

\* C20: a lookup that finds nothing returns its empty answer and leaves the
\* persisted document unchanged: complete_habit and claim_bonus_habit return
\* False for a habit their list does not hold or for a user in no household,
\* get_habit returns None for a habit in neither list, get_sorted_rankings
\* returns the empty mapping for a household without a ranking.
C20_NotFoundChangesNothing ==
    [][/\ (/\ call'.op = "complete_habit"
           /\ \/ FindHabit(file.habits, call'.habit) = NoHabit
              \/ HouseholdsOf(file, call'.user) = {})
          => (call'.ret = "False" /\ file' = file)
       /\ (/\ call'.op = "claim_bonus_habit"
           /\ \/ FindHabit(file.bonus_habits, call'.habit) = NoHabit
              \/ HouseholdsOf(file, call'.user) = {})
          => (call'.ret = "False" /\ file' = file)
       /\ (/\ call'.op = "get_habit"
           /\ \A i \in 1..Len(file.habits) : file.habits[i].name # call'.habit
           /\ \A i \in 1..Len(file.bonus_habits) : file.bonus_habits[i].name # call'.habit)
          => (call'.ret = NoHabit /\ file' = file)
       /\ (/\ call'.op = "get_sorted_rankings"
           /\ ~DictHas(file.leaderboard.rankings, call'.household))
          => (call'.ret = <<>> /\ file' = file)
      ]_vars

\* complete_habit has just refused a stored habit for a user who is in no
\* household, while another user is a member
C20_Witness ==
    /\ call.op = "complete_habit"
    /\ call.ret = "False"
    /\ FindHabit(file.habits, call.habit) # NoHabit
    /\ HouseholdsOf(file, call.user) = {}
    /\ \E u \in Users : HouseholdsOf(file, u) # {}

----------------------------------------------------------------------------
(* Claims about User.from_dict (SpecFromDict). *)

\* the value is a dict, or the key is missing and the default {} is used
DictOrAbsent(v) == v.type \in {"dict", "absent"}

\* C21: User.from_dict raises ValueError for data that is not a mapping, for
\* a record without a username and for a record whose points are negative or
\* not a number; for a well-formed record it returns a user with the
\* record's username, points, streaks, bonus_claimed and completion dates.
C21_FromDictValidation ==
    call.op = "from_dict" =>
        LET data      == call.data
            malformed == \/ data.type # "dict"
                         \/ data.username.type = "absent"
                         \/ data.points.type \notin {"absent", "int", "float"}
                         \/ (data.points.type \in {"int", "float"} /\ data.points.value < 0)
            wellformed == /\ ~malformed
                          /\ DictOrAbsent(data.streaks)
                          /\ DictOrAbsent(data.bonus_claimed)
                          /\ DictOrAbsent(data.habits_completed)
        IN  /\ malformed => call.result.ret = "ValueError"
            /\ wellformed =>
                 /\ call.result.ret = "None"
                 /\ call.result.self.username = data.username.value
                 /\ call.result.self.points = DictGetDefault(data.points, PyVal("int", 0)).value
                 /\ call.result.self.streaks = DictGetDefault(data.streaks, PyVal("dict", <<>>)).value
                 /\ call.result.self.bonus_claimed
                        = DictGetDefault(data.bonus_claimed, PyVal("dict", <<>>)).value
                 /\ LET dates == DictGetDefault(data.habits_completed, PyVal("dict", <<>>)).value
                        got   == call.result.self.habits_completed
                    IN  /\ DOMAIN got = DOMAIN dates
                        /\ \A h \in DOMAIN dates :
                               /\ Len(got[h]) = Len(dates[h])
                               /\ \A i \in 1..Len(dates[h]) : strftime_Ymd(got[h][i]) = dates[h][i]

----------------------------------------------------------------------------
(* Claims about reset_habits and reset_monthly_scores (SpecReset). *)

\* the user completed or claimed the habit on a day of its current period
CompletedSince(u, habit, now) ==
    \E d \in PeriodStart(habit, now)..now :
        <<"complete_habit", u, habit.name, d>> \in done \/ <<"claim_bonus_habit", u, habit.name, d>> \in done

\* C22: after reset_habits the stored streak of a user for a habit is 0 even
\* when the user completed that habit earlier the same day.
C22_ResetHabitsZeroesStreak ==
    [][call'.op = "reset_habits" =>
        \A u \in DOMAIN file.streaks : \A h \in DOMAIN file.streaks[u] :
            <<"complete_habit", u, h, today>> \in done => file'.streaks[u][h] = 0
      ]_vars

\* C27: reset_habits leaves unchanged the stored streak of every (user,
\* habit) pair whose user completed the habit within the habit's current
\* period, whatever other users completed on the same days, and sets to 0
\* the streak of every other pair whose habit exists.
C27_ResetHabitsKeepsCompleted ==
    [][call'.op = "reset_habits" =>
        \A u \in DOMAIN file.streaks : \A h \in DOMAIN file.streaks[u] :
            LET habit == DM_get_habit(file, h)
            IN  habit # NoHabit =>
                    file'.streaks[u][h] = IF CompletedSince(u, habit, today)
                                          THEN file.streaks[u][h] ELSE 0
      ]_vars

\* every household's points mapping has exactly its members as keys, each
\* value a non-negative integer
PointsWellFormed(data) ==
    \A i \in 1..Len(data.households) :
        LET details == data.households[i][2]
        IN  /\ DOMAIN details.points = {details.members[j] : j \in 1..Len(details.members)}
            /\ \A u \in DOMAIN details.points : details.points[u] \in Nat

----------------------------------------------------------------------------
(* Claims about User.get_bonus_points (SpecBonus). *)

\* C24: get_bonus_points(habit) returns 5 exactly when the stored streak of
\* the habit is a positive multiple of 7 and 0 in every other case, a stored
\* streak of 0 and a habit without a stored streak included; it changes no
\* state of the user.
C24_BonusForPositiveMultiples ==
    [][call'.op = "get_bonus_points" =>
        /\ user' = user
        /\ call'.ret = IF /\ call'.habit \in DOMAIN user.streaks
                          /\ user.streaks[call'.habit] > 0
                          /\ user.streaks[call'.habit] % 7 = 0
                       THEN 5 ELSE 0
      ]_vars

----------------------------------------------------------------------------
(* Claims about the creation operations (SpecCreate). *)

HasName(habits, name) == \E i \in 1..Len(habits) : habits[i].name = name

UniqueNames(habits) ==
    \A i, j \in 1..Len(habits) : habits[i].name = habits[j].name => i = j

\* C25: create_household for an existing name, save_user for a username
\* already in that household, and save_habit / save_bonus_habit for a name
\* already in the habit's own category leave the whole document unchanged;
\* names are unique within the regular list and within the bonus list, and
\* a name taken only in the other category does not block the save.
C25_CreationIsIdempotent ==
    [][/\ UniqueNames(file'.habits) /\ UniqueNames(file'.bonus_habits)
       /\ \A h \in Households :
              (CreateHousehold(h) /\ DictHas(file.households, h)) => file' = file
       /\ \A u \in Users, h \in Households :
              (SaveUser(u, h) /\ DictHas(file.households, h)
                  /\ IsMember(DictGet(file.households, h), u)) => file' = file
       /\ \A habit \in CreateHabits :
              /\ (SaveHabit(habit) /\ ~habit.is_bonus) =>
                     IF HasName(file.habits, habit.name) THEN file' = file
                     ELSE file' = [file EXCEPT !.habits = Append(@, Habit_to_dict(habit))]
              /\ (SaveHabit(habit) /\ habit.is_bonus) =>
                     IF HasName(file.bonus_habits, habit.name) THEN file' = file
                     ELSE file' = [file EXCEPT !.bonus_habits = Append(@, Habit_to_dict(habit))]
              /\ SaveBonusHabit(habit) =>
                     IF HasName(file.bonus_habits, habit.name) THEN file' = file
                     ELSE /\ file'.habits = file.habits
                          /\ Len(file'.bonus_habits) = Len(file.bonus_habits) + 1
      ]_vars

\* "Run" is stored in both categories; the regular list holds it first and
\* another habit behind it, so the save_habit of "Run" that ran last found
\* the name taken
C25_Witness ==
    /\ call.op = "save_habit"
    /\ call.habit = "Run"
    /\ Len(file.habits) = 2
    /\ file.habits[1].name = "Run"
    /\ HasName(file.bonus_habits, "Run")

----------------------------------------------------------------------------
(* The cli's add_user for a user who already is a member. *)

----------------------------------------------------------------------------
(* The cli's view_top_performers after a month-end reset. *)

\* C28: once the cli's reset_monthly_scores has archived a record (some
\* household had a non-empty ranking), view_top_performers lists the month,
\* the top user and the points of every archived record instead of reporting
\* that no top performers are recorded.
C28_TopPerformersListed ==
    (call.op = "view_top_performers" /\ file.leaderboard.past_rankings # <<>>) =>
        /\ call.ret.message # "No top performers recorded yet."
        /\ \A i \in 1..Len(file.leaderboard.past_rankings) :
              LET entry == file.leaderboard.past_rankings[i]
              IN  \E j \in 1..Len(call.ret.lines) :
                      call.ret.lines[j] = [month |-> entry.month, top_user |-> entry.top_user, points |-> entry.points]

----------------------------------------------------------------------------
(* The Leaderboard instance's archive and the persisted archive. *)

\* s is a prefix of t
IsPrefix(s, t) == Len(s) <= Len(t) /\ \A i \in 1..Len(s) : s[i] = t[i]

\* C29: for one Leaderboard instance, after any sequence of Leaderboard.update,
\* reset_monthly, DataManager operations and clear_data, the list returned by
\* get_past_rankings() and by get_top_performers() is the past_rankings list
\* of the persisted document; and a step other than clear_data only appends
\* to the persisted past_rankings, its earlier records staying as they were.
C29_ArchiveMatchesDocument ==
    /\ [](call.op \in {"get_past_rankings", "get_top_performers"} =>
              call.ret = file.leaderboard.past_rankings)
    /\ [][call'.op # "clear_data" =>
              IsPrefix(file.leaderboard.past_rankings, file'.leaderboard.past_rankings)]_vars

\* the second half of C29 alone: outside clear_data the persisted
\* past_rankings only grows by appending
C29_PersistedArchiveAppendOnly ==
    [][call'.op # "clear_data" =>
            IsPrefix(file.leaderboard.past_rankings, file'.leaderboard.past_rankings)]_vars

----------------------------------------------------------------------------
(* Two processes completing habits at the same time. *)

\* both processes have returned True
BothSucceeded == \A p \in Procs : procs[p].pc = "done" /\ procs[p].ret = "True"

\* C23: each operation is a load of the whole document followed by a save of
\* the whole document, so the last writer wins: once two concurrent
\* complete_habit calls have both returned True, the persisted document is
\* the document of one of them, as that process loaded and changed it.
C23_LastWriterWins ==
    BothSucceeded => \E p \in Procs : file = procs[p].data

\* both calls reported success, for two users, and the document holds the
\* streak and the points of one of them only: the other update is lost
C23_Witness ==
    /\ BothSucceeded
    /\ procs[1].username # procs[2].username
    /\ procs[1].habit_name = procs[2].habit_name
    /\ \E p, q \in Procs :
          LET hh == FindHousehold(file, procs[p].username)
          IN  /\ p # q
              /\ StreakOf(file, procs[p].username, procs[p].habit_name) = 1
              /\ PointsOf(file, hh, procs[p].username) = Run.points
              /\ StreakOf(file, procs[q].username, procs[q].habit_name) = 0
              /\ PointsOf(file, hh, procs[q].username) = 0

====
